---- MODULE Spec2Model ----
(***************************************************************************)
(* Model of the Board of markcol/square100 (src/src/lib.rs): an N x N grid *)
(* of u8 cell values with a cursor, numbered by jumps of 3 (orthogonal) or *)
(* 2 (diagonal) cells.                                                     *)
(***************************************************************************)
EXTENDS Integers, Sequences, FiniteSets, TLC

VARIABLES
    size_arg,   \* the argument Board::new was called with
    size,       \* Board.size
    cells,      \* Board.cells
    values,     \* Board.values, row-major; the code's values[i] is values[i + 1]
    x, y,       \* Board.x, Board.y: the cursor
    op,         \* the last call made: "new", "start_at" or "next_move"
    arg,        \* its arguments
    res,        \* what it returned, or Panic
    greedy      \* the calls made so far are those of the greedy solver

vars == <<size_arg, size, cells, values, x, y, op, arg, res, greedy>>

----------------------------------------------------------------------------
(* Bounds of the exploration *)

\* largest argument handed to Board::new
MaxSizeArg == 17
\* calls are made freely on boards with fewer filled cells
MaxFilled == 3
\* the same, on the 5 x 5 board of the tests
MaxFilledTest == 4
\* start_at is called on boards holding fewer 1s
MaxStarts == 2
\* number of final moves of the game of tests::win_5 that are chosen freely
FreeTail == 16

----------------------------------------------------------------------------
(* Program constants *)

HV_OFFSET == 3
DIAG_OFFSET == 2
MinSize == 5
MaxSize == 16
\* number of values of the cell type u8
U8 == 256
\* side of the board of tests::win_5
TestSize == 5
\* tests::start_board: the side of its board and the coordinate it starts at
StartBoardSize == 10
StartBoardAt == 5

\* Direction::iterator: the static DIRECTIONS array, in order
DIRECTIONS == << "Down", "DownRight", "Right", "UpRight",
                 "Up", "UpLeft", "Left", "DownLeft" >>

Direction == { DIRECTIONS[i] : i \in 1..Len(DIRECTIONS) }

\* tests::win_5: the winning sequence of moves from (0, 0)
moves == << "Right", "Down", "Left",
            "UpRight", "DownRight", "Left",
            "UpRight", "Down", "UpLeft",
            "Right", "DownLeft", "UpLeft",
            "UpRight", "Down", "UpLeft",
            "Down", "UpRight", "DownRight",
            "Up", "Left", "Down",
            "UpRight", "UpLeft", "Right" >>

\* Option::None
None == << >>

\* results: Ok(()) and the messages of the MyError values the code builds
Ok == "Ok"
InvalidState == "Attempt to move with an empty board"
InvalidMove == "Moving in direction: {:?} is invalid"
InvalidValueClear == "cannot clear cell [{}, {}]"
InvalidValueMax == "cannot set cell [{}, {}] to {} (max: {})"
OutOfRange == "index [{}, {}] out of range (max: {})"
AlreadyOccupied == "cannot change value of cell [{}, {}]"
\* debug builds abort on `val + 1` overflowing u8
Panic == "attempt to add with overflow"

----------------------------------------------------------------------------
(* Board::new *)

\* clamp without the upper limit
clamp_no_upper(s) == IF s < MinSize THEN MinSize ELSE s

clamp(s) == IF s > MaxSize THEN MaxSize ELSE IF s < MinSize THEN MinSize ELSE s

new(s) ==
    LET sz == clamp(s)
    IN  [ size |-> sz,
          cells |-> sz * sz,
          values |-> [ i \in 1..(sz * sz) |-> 0 ],
          x |-> 0,
          y |-> 0 ]

----------------------------------------------------------------------------
(* Queries.  values is row-major; the code's index i is values[i + 1].      *)

cell(cx, cy) == values[cy * size + cx + 1]

is_started == cell(x, y) > 0

\* the match on dir with Down and Up exchanged
offset_flipped(lx, ly, dir) ==
    CASE dir = "Down"      -> << lx, ly - HV_OFFSET >>
      [] dir = "DownRight" -> << lx + DIAG_OFFSET, ly + DIAG_OFFSET >>
      [] dir = "Right"     -> << lx + HV_OFFSET, ly >>
      [] dir = "UpRight"   -> << lx + DIAG_OFFSET, ly - DIAG_OFFSET >>
      [] dir = "Up"        -> << lx, ly + HV_OFFSET >>
      [] dir = "UpLeft"    -> << lx - DIAG_OFFSET, ly - DIAG_OFFSET >>
      [] dir = "Left"      -> << lx - HV_OFFSET, ly >>
      [] dir = "DownLeft"  -> << lx - DIAG_OFFSET, ly + DIAG_OFFSET >>

\* the match on dir, over the locals x and y of valid_move
offset(lx, ly, dir) ==
    CASE dir = "Down"      -> << lx, ly + HV_OFFSET >>
      [] dir = "DownRight" -> << lx + DIAG_OFFSET, ly + DIAG_OFFSET >>
      [] dir = "Right"     -> << lx + HV_OFFSET, ly >>
      [] dir = "UpRight"   -> << lx + DIAG_OFFSET, ly - DIAG_OFFSET >>
      [] dir = "Up"        -> << lx, ly - HV_OFFSET >>
      [] dir = "UpLeft"    -> << lx - DIAG_OFFSET, ly - DIAG_OFFSET >>
      [] dir = "Left"      -> << lx - HV_OFFSET, ly >>
      [] dir = "DownLeft"  -> << lx - DIAG_OFFSET, ly + DIAG_OFFSET >>

\* valid_move without the test that the destination is empty
valid_move_any_cell(dir) ==
    IF is_started
    THEN LET p == offset(x, y, dir)
         IN  IF p[1] >= 0 /\ p[2] >= 0 /\ p[1] < size /\ p[2] < size
             THEN p
             ELSE None
    ELSE None

valid_move(dir) ==
    IF is_started
    THEN LET p == offset(x, y, dir)
         IN  IF /\ p[1] >= 0
                /\ p[2] >= 0
                /\ p[1] < size
                /\ p[2] < size
                /\ cell(p[1], p[2]) = 0
             THEN p
             ELSE None
    ELSE None

possible_moves == SelectSeq(DIRECTIONS, LAMBDA d : valid_move(d) # None)

\* is_won without the search for an empty cell
is_won_max_only == cell(x, y) = cells % U8

\* `self.cells as u8` truncates
is_won ==
    /\ cell(x, y) = cells % U8
    /\ \A i \in 1..Len(values) : values[i] # 0

\* is_blocked without the is_started test
is_blocked_unstarted == Len(possible_moves) = 0

is_blocked == is_started /\ Len(possible_moves) = 0

\* fold(0, u8::max) over the cells
score ==
    LET vs == { values[i] : i \in 1..Len(values) } \cup { 0 }
    IN  CHOOSE m \in vs : \A v \in vs : v <= m

----------------------------------------------------------------------------
(* Write primitives: each yields the result and the board it leaves.        *)

unchanged(r) == [ res |-> r, values |-> values, x |-> x, y |-> y ]

\* set_cell without the test that the cell is empty
set_cell_overwrite(cx, cy, value) ==
    IF cx >= size \/ cy >= size
    THEN unchanged(OutOfRange)
    ELSE [ res |-> Ok,
           values |-> [ values EXCEPT ![cy * size + cx + 1] = value ],
           x |-> cx,
           y |-> cy ]

set_cell(cx, cy, value) ==
    IF cx >= size \/ cy >= size
    THEN unchanged(OutOfRange)
    ELSE IF cell(cx, cy) # 0
    THEN unchanged(AlreadyOccupied)
    ELSE [ res |-> Ok,
           values |-> [ values EXCEPT ![cy * size + cx + 1] = value ],
           x |-> cx,
           y |-> cy ]

\* set_value with the lower limit off by one
set_value_above_one(cx, cy, value) ==
    IF value <= 1
    THEN unchanged(InvalidValueClear)
    ELSE IF value > cells
    THEN unchanged(InvalidValueMax)
    ELSE set_cell(cx, cy, value)

set_value(cx, cy, value) ==
    IF value < 1
    THEN unchanged(InvalidValueClear)
    ELSE IF value > cells
    THEN unchanged(InvalidValueMax)
    ELSE set_cell(cx, cy, value)

\* start_at with the coordinates exchanged
start_at_swapped(cx, cy) == set_value(cy, cx, 1)

\* start_at refused on a started board
start_at_once(cx, cy) ==
    IF is_started THEN unchanged(InvalidState) ELSE set_value(cx, cy, 1)

start_at(cx, cy) == set_value(cx, cy, 1)

\* next_move without the is_started test
next_move_unguarded(dir) ==
    LET val == cell(x, y)
        p == valid_move(dir)
    IN  IF p # None
        THEN IF val + 1 >= U8
             THEN { unchanged(Panic), set_cell(p[1], p[2], (val + 1) % U8) }
             ELSE { set_cell(p[1], p[2], val + 1) }
        ELSE { unchanged(InvalidMove) }

\* the set of outcomes of next_move(dir).  `val + 1` on u8 that overflows
\* panics in a build with overflow checks (debug) and wraps without (release)
next_move(dir) ==
    IF ~ is_started
    THEN { unchanged(InvalidState) }
    ELSE LET val == cell(x, y)
             p == valid_move(dir)
         IN  IF p # None
             THEN IF val + 1 >= U8
                  THEN { unchanged(Panic), set_cell(p[1], p[2], (val + 1) % U8) }
                  ELSE { set_cell(p[1], p[2], val + 1) }
             ELSE { unchanged(InvalidMove) }

----------------------------------------------------------------------------
(* The caller *)

Filled == Cardinality({ i \in 1..Len(values) : values[i] # 0 })
Ones == Cardinality({ i \in 1..Len(values) : values[i] = 1 })

\* the number of filled cells below which the caller makes any call
Budget == IF size_arg = TestSize THEN MaxFilledTest ELSE MaxFilled

\* coordinates handed to start_at: the edge, the interior, beyond the grid
Coords == << 0, 3, size >>

\* the game of tests::win_5: a 5 x 5 board started once, at (0, 0)
TestGame == size_arg = TestSize /\ Ones = 1 /\ values[1] = 1

\* in that game the caller replays the opening of `moves` and then moves freely
TestMove(dir) ==
    /\ TestGame
    /\ IF Filled > Len(moves) - FreeTail THEN TRUE ELSE dir = moves[Filled]

\* a long game: on a 16 x 16 board a greedy solver starts at (0, 0) and then
\* takes the first of possible_moves() with the fewest onward moves; greedy
\* holds while every call made so far is one of that solver
Onward(p) ==
    Cardinality({ d \in Direction :
        LET q == offset(p[1], p[2], d)
        IN  /\ q[1] >= 0
            /\ q[2] >= 0
            /\ q[1] < size
            /\ q[2] < size
            /\ cell(q[1], q[2]) = 0 })

Best ==
    LET pm == possible_moves
        k(i) == Onward(valid_move(pm[i]))
        b == CHOOSE i \in 1..Len(pm) :
                 \A j \in 1..Len(pm) : k(i) < k(j) \/ (k(i) = k(j) /\ i <= j)
    IN  pm[b]

GreedyStart(cx, cy) == Filled = 0 /\ cx = 0 /\ cy = 0

GreedyMove(dir) == IF Len(possible_moves) = 0 THEN TRUE ELSE dir = Best

LongGame == size_arg = MaxSize /\ greedy

Init ==
    \E s \in 0..MaxSizeArg :
        LET b == new(s)
        IN  /\ size_arg = s
            /\ size = b.size
            /\ cells = b.cells
            /\ values = b.values
            /\ x = b.x
            /\ y = b.y
            /\ op = "new"
            /\ arg = << s >>
            /\ res = Ok
            /\ greedy = TRUE

StartAt(cx, cy) ==
    /\ res # Panic
    /\ Filled < Budget
    /\ Ones < MaxStarts
    /\ LET r == start_at(cx, cy)
       IN  /\ values' = r.values
           /\ x' = r.x
           /\ y' = r.y
           /\ res' = r.res
    /\ op' = "start_at"
    /\ arg' = << cx, cy >>
    /\ greedy' = (greedy /\ GreedyStart(cx, cy))
    /\ UNCHANGED << size_arg, size, cells >>

NextMove(dir) ==
    /\ res # Panic
    /\ IF Filled < Budget THEN TRUE
       ELSE IF TestGame THEN TestMove(dir)
       ELSE LongGame /\ GreedyMove(dir)
    /\ \E r \in next_move(dir) :
           /\ values' = r.values
           /\ x' = r.x
           /\ y' = r.y
           /\ res' = r.res
    /\ op' = "next_move"
    /\ arg' = << dir >>
    /\ greedy' = (greedy /\ GreedyMove(dir))
    /\ UNCHANGED << size_arg, size, cells >>

Next ==
    \/ \E i \in 1..3, j \in 1..3 : StartAt(Coords[i], Coords[j])
    \/ size_arg = StartBoardSize /\ StartAt(StartBoardAt, StartBoardAt)
    \/ \E dir \in Direction : NextMove(dir)

Spec == Init /\ [][Next]_vars

----------------------------------------------------------------------------
TypeOK ==
    /\ size_arg \in 0..MaxSizeArg
    /\ greedy \in BOOLEAN
    /\ size \in MinSize..MaxSize
    /\ x \in 0..(size - 1)
    /\ y \in 0..(size - 1)
    /\ \A i \in 1..Len(values) : values[i] \in 0..(U8 - 1)

----------------------------------------------------------------------------
(* Vocabulary of the properties: the move table of the rules, stated apart  *)
(* from the code                                                            *)

RuleOrder == << "Down", "DownRight", "Right", "UpRight",
                "Up", "UpLeft", "Left", "DownLeft" >>

RuleDx(d) ==
    CASE d = "Right" -> 3
      [] d = "Left" -> 0 - 3
      [] d \in { "DownRight", "UpRight" } -> 2
      [] d \in { "UpLeft", "DownLeft" } -> 0 - 2
      [] OTHER -> 0

RuleDy(d) ==
    CASE d = "Down" -> 3
      [] d = "Up" -> 0 - 3
      [] d \in { "DownRight", "DownLeft" } -> 2
      [] d \in { "UpRight", "UpLeft" } -> 0 - 2
      [] OTHER -> 0

\* the destination of d from the cursor is on the grid and empty
RuleFree(d) ==
    LET dx == x + RuleDx(d)
        dy == y + RuleDy(d)
    IN  /\ dx \in 0..(size - 1)
        /\ dy \in 0..(size - 1)
        /\ values[dy * size + dx + 1] = 0

NoZero == \A i \in 1..Len(values) : values[i] # 0

----------------------------------------------------------------------------
(* Properties *)

\* C1: a cell whose value is non-zero keeps that value in every step: no
\* start_at or next_move call, successful or failing, changes or clears it.
C1_WriteOnce ==
    [][ \A i \in 1..Len(values) : values[i] # 0 => values'[i] = values[i] ]_vars

\* C1 witness: a write to a non-zero cell was attempted on a board holding
\* several numbers.
C1_Witness == op = "start_at" /\ res = AlreadyOccupied /\ Filled >= 2

\* C2 (as claimed): every successful next_move increases score() by exactly 1,
\* moves the cursor to the destination of the direction and leaves the value
\* of the previous cursor cell unchanged.
C2_ScoreStep ==
    [][ (op' = "next_move" /\ res' = Ok) =>
            /\ score' = score + 1
            /\ x' = x + RuleDx(arg'[1])
            /\ y' = y + RuleDy(arg'[1])
            /\ values'[y * size + x + 1] = values[y * size + x + 1] ]_vars

\* C3: is_won() is true if and only if the value at the cursor equals cells
\* (size * size) and no cell of values is zero, on boards of every size.
C3_IsWon ==
    is_won <=> (values[y * size + x + 1] = size * size /\ NoZero)

\* C3 witness: a board on which is_won() is true.
C3_Witness == is_won /\ op = "next_move" /\ res = Ok

\* C4 (as claimed): on a started board possible_moves() is the list, in the
\* order Down, DownRight, Right, UpRight, Up, UpLeft, Left, DownLeft, of the
\* directions whose destination is on the grid and empty; next_move(d)
\* succeeds if and only if d is in possible_moves(), and fails with
\* InvalidMove otherwise.
C4_PossibleMoves ==
    /\ [](is_started => possible_moves = SelectSeq(RuleOrder, RuleFree))
    /\ [][ (is_started /\ op' = "next_move") =>
               /\ res' = Ok <=> RuleFree(arg'[1])
               /\ res' # Ok => res' = InvalidMove ]_vars

\* C5: next_move on a board that has not been started fails with
\* InvalidState, whatever the direction, and leaves values and the cursor
\* unchanged.
C5_Unstarted ==
    [][ (~ is_started /\ op' = "next_move") =>
            /\ res' = InvalidState
            /\ UNCHANGED << values, x, y >> ]_vars

\* C5 witness: next_move was called on an unstarted board.
C5_Witness == op = "next_move" /\ res = InvalidState /\ ~ is_started

\* C6: on a started board a next_move whose destination is off the grid or
\* occupied fails with InvalidMove and leaves values and the cursor unchanged.
C6_InvalidMove ==
    [][ (is_started /\ op' = "next_move" /\ ~ RuleFree(arg'[1])) =>
            /\ res' = InvalidMove
            /\ UNCHANGED << values, x, y >> ]_vars

\* C6 witness: Left was tried from the cursor (0, 0) of a started board.
C6_Witness ==
    /\ op = "next_move"
    /\ arg = << "Left" >>
    /\ res = InvalidMove
    /\ is_started
    /\ x = 0
    /\ y = 0

\* C7: start_at(x, y) fails with OutOfRange when x >= size or y >= size and
\* with AlreadyOccupied when (x, y) is on the grid and holds a non-zero value;
\* both failures leave values and the cursor unchanged.
C7_StartAtErrors ==
    [][ op' = "start_at" =>
            LET ax == arg'[1]
                ay == arg'[2]
            IN  /\ (ax >= size \/ ay >= size) =>
                       res' = OutOfRange /\ UNCHANGED << values, x, y >>
                /\ (ax < size /\ ay < size /\ values[ay * size + ax + 1] # 0) =>
                       res' = AlreadyOccupied /\ UNCHANGED << values, x, y >> ]_vars

\* C7 witness: start_at was refused on an occupied cell that is not the cursor.
C7_Witness ==
    /\ op = "start_at"
    /\ res = AlreadyOccupied
    /\ << x, y >> # arg

\* C8: after start_at(x, y) succeeds on a freshly constructed board,
\* is_started() is true, score() is 1, cell (x, y) holds 1 and every other
\* cell 0, the cursor is (x, y) and is_won() is false.
C8_FirstStart ==
    [][ (op = "new" /\ op' = "start_at" /\ res' = Ok) =>
            LET ax == arg'[1]
                ay == arg'[2]
            IN  /\ is_started'
                /\ score' = 1
                /\ \A i \in 1..(size * size) :
                       values'[i] = IF i = ay * size + ax + 1 THEN 1 ELSE 0
                /\ x' = ax
                /\ y' = ay
                /\ ~ is_won' ]_vars

\* C8 witness: the first start_at succeeded away from the diagonal.
C8_Witness ==
    /\ op = "start_at"
    /\ res = Ok
    /\ Filled = 1
    /\ arg = << 0, 3 >>

C10_New ==
    /\ size_arg < 5 => size = 5
    /\ size_arg > 16 => size = 16
    /\ size_arg \in 5..16 => size = size_arg
    /\ cells = size * size
    /\ Len(values) = size * size
    /\ op = "new" => (\A i \in 1..Len(values) : values[i] = 0) /\ x = 0 /\ y = 0

\* C10 witness: a board built from an argument above the range, played on.
C10_Witness == size_arg > 16 /\ Filled >= MaxFilled

\* the solved 5 x 5 grid drawn in the file header and in tests::win_5
Win5Grid == <<  1, 24, 14,  2, 25,
               16, 21,  5,  8, 20,
               13, 10, 18, 23, 11,
                4,  7, 15,  3,  6,
               17, 22, 12,  9, 19 >>

\* the board is the 5 x 5 board on which the first k numbers of that grid
\* are placed, with the cursor on k
OnWin5(k) ==
    /\ size = 5
    /\ \A i \in 1..25 : values[i] = IF Win5Grid[i] <= k THEN Win5Grid[i] ELSE 0
    /\ values[y * size + x + 1] = k

\* C11: on a 5 x 5 board started at (0, 0) each of the 24 moves Right, Down,
\* Left, ... , UpLeft, Right of tests::win_5 is accepted by next_move in its
\* turn, and the board they end in has is_won() true, score() 25,
\* possible_moves() empty and is_blocked() true.
C11_Win5 ==
    /\ [][ \A k \in 1..24 :
               (OnWin5(k) /\ op' = "next_move" /\ arg' = << moves[k] >>) =>
                   res' = Ok /\ OnWin5(k + 1)' ]_vars
    /\ [](OnWin5(25) =>
              is_won /\ score = 25 /\ possible_moves = << >> /\ is_blocked)

\* C11 witness: the board after the 24th move of the sequence.
C11_Witness == OnWin5(25) /\ op = "next_move" /\ arg = << "Right" >> /\ res = Ok

\* C12: whenever is_won() is true, score() equals cells, possible_moves() is
\* empty and is_blocked() is true.
C12_WonIsBlocked ==
    is_won => score = size * size /\ possible_moves = << >> /\ is_blocked

\* C12 witness: a won board on which a further move was refused.
C12_Witness == is_won /\ op = "next_move" /\ res = InvalidMove

\* C13 (as claimed): the non-zero entries of values are pairwise different and
\* lie in 1..cells.
C13_Unique ==
    \A i \in 1..Len(values) :
        values[i] # 0 =>
            /\ values[i] \in 1..(size * size)
            /\ \A j \in 1..Len(values) : values[j] = values[i] => j = i

\* C14 (as claimed): on a started board the value at the cursor equals
\* score(), the largest value on the board.
C14_CursorIsMax == is_started => values[y * size + x + 1] = score

\* C15: start_at(x, y) on a started board, at an empty cell of the grid,
\* succeeds, writes 1 there and moves the cursor there, changing no other
\* cell; the next_move that follows it writes 2.
C15_SecondStart ==
    /\ [][ (/\ is_started
            /\ op' = "start_at"
            /\ arg'[1] < size
            /\ arg'[2] < size
            /\ values[arg'[2] * size + arg'[1] + 1] = 0) =>
               /\ res' = Ok
               /\ values' = [ values EXCEPT ![arg'[2] * size + arg'[1] + 1] = 1 ]
               /\ x' = arg'[1]
               /\ y' = arg'[2] ]_vars
    /\ [][ (/\ op = "start_at"
            /\ res = Ok
            /\ op' = "next_move"
            /\ res' = Ok) =>
               values'[y' * size + x' + 1] = 2 ]_vars

\* C15 witness: after a second start_at a move wrote a second 2.
C15_Witness ==
    /\ op = "next_move"
    /\ res = Ok
    /\ values[y * size + x + 1] = 2
    /\ Ones = 2
    /\ Cardinality({ i \in 1..Len(values) : values[i] = 2 }) = 2

\* C16 (as claimed): no call panics, and the cursor's value + 1 computed by
\* next_move never overflows u8: a successful next_move writes exactly one
\* more than the value at the previous cursor.
C16_NoOverflow ==
    [][ /\ res' # Panic
        /\ (op' = "next_move" /\ res' = Ok) =>
               values'[y' * size + x' + 1] = values[y * size + x + 1] + 1 ]_vars

\* the destination of d from the cursor is on the grid
RuleOnGrid(d) ==
    /\ x + RuleDx(d) \in 0..(size - 1)
    /\ y + RuleDy(d) \in 0..(size - 1)

\* C17: right after the first successful start_at(x, y) on a fresh board
\* possible_moves() holds exactly the directions whose destination is on the
\* grid, and it holds all 8 if and only if 3 <= x <= size - 4 and
\* 3 <= y <= size - 4.
C17_AfterStart ==
    (op = "start_at" /\ res = Ok /\ Filled = 1) =>
        /\ { possible_moves[i] : i \in 1..Len(possible_moves) }
               = { RuleOrder[i] : i \in { j \in 1..8 : RuleOnGrid(RuleOrder[j]) } }
        /\ Len(possible_moves) = 8
               <=> (3 <= x /\ x <= size - 4 /\ 3 <= y /\ y <= size - 4)

\* C17 witness: the start of tests::start_board, (5, 5) on a 10 x 10 board.
C17_Witness ==
    /\ op = "start_at"
    /\ res = Ok
    /\ Filled = 1
    /\ size = 10
    /\ arg = << 5, 5 >>
    /\ Len(possible_moves) = 8

\* C18 (as claimed): every successful start_at or next_move fills exactly one
\* previously empty cell and changes no other, so that the number of filled
\* cells, at most cells, counts the successful calls and play ends.
C18_FillsOne ==
    [][ (op' \in { "start_at", "next_move" } /\ res' = Ok) =>
            /\ Filled' = Filled + 1
            /\ Filled' <= size * size
            /\ Cardinality({ i \in 1..Len(values) : values'[i] # values[i] }) = 1
            /\ \A i \in 1..Len(values) : values'[i] # values[i] => values[i] = 0 ]_vars

\* C19 (as claimed): is_started() holds if and only if some cell is non-zero,
\* that is if and only if score() > 0.
C19_StartedIffNonEmpty == is_started <=> score > 0

\* the jumps of the rules: 3 along an axis, 2 along both
RuleJumps ==
    { << 0, 3 >>, << 0, 0 - 3 >>, << 3, 0 >>, << 0 - 3, 0 >>,
      << 2, 2 >>, << 2, 0 - 2 >>, << 0 - 2, 2 >>, << 0 - 2, 0 - 2 >> }

====
